---- MODULE Spec2Model ----
(***************************************************************************)
(* DavidGnome command-safety pipeline: extraction of shell commands from   *)
(* a model reply, risk classification, and the confirmation gate in front  *)
(* of the command runner (src/main.py), with backend selection             *)
(* (src/config.py).                                                        *)
(*                                                                         *)
(* Python strings are modelled as sequences of one-character strings, so   *)
(* that lower(), strip(), startswith(), the substring test and the two     *)
(* regular expressions are computed character by character.                *)
(***************************************************************************)
EXTENDS Integers, Sequences, FiniteSets, TLC

VARIABLES
    pc,             \* position of the single thread of control
    hasPrompt,      \* main: len(sys.argv) >= 2
    configFile,     \* state of config.json met by get_backend
    backend,        \* name returned by get_backend
    fault,          \* the failure that ended the run, "none" otherwise
    exitCode,       \* process exit code, -1 while running
    response,       \* text returned by backend_module.query
    commands,       \* list returned by extract_commands
    chOptions,      \* gum_choose: argument options
    chSite,         \* gum_choose: the caller ("process" or "gate")
    chHelper,       \* gum_choose: what happened to the gum helper
    chRetries,      \* gum_choose: invalid answers given to the fallback menu
    choice,         \* value returned by the last gum_choose
    command,        \* argument of handle_command_execution / classify_command
    classification, \* value returned by classify_command
    gateResult,     \* outcome of handle_command_execution
    events,         \* interactions and effects, in program order
    log,            \* lines printed on standard output, in order
    typed,          \* the last line read by input() in a plain-text fallback
    rtCmd,          \* round trip: the command that was wrapped in a fence
    rtResult        \* round trip: extract_commands of the wrapped command

vars == <<pc, hasPrompt, configFile, backend, fault, exitCode, response,
          commands, chOptions, chSite, chHelper, chRetries, choice, command,
          classification, gateResult, events, log, typed, rtCmd, rtResult>>

-----------------------------------------------------------------------------
(* Bounds of the model *)

\* number of tokens concatenated into a command given to classify_command
MaxWords == 3
\* number of pieces concatenated into a text given to extract_commands
MaxPieces == 4
\* invalid answers the user may give to the fallback menu before a valid one
MaxRetries == 2
\* length of a line typed at the y/N prompt of gum_confirm
MaxLineLen == 3

-----------------------------------------------------------------------------
(* Characters and Python str operations *)

UPPER == <<"A","B","C","D","E","F","G","H","I","J","K","L","M","N","O","P","Q","R","S","T","U","V","W","X","Y","Z">>
LOWER == <<"a","b","c","d","e","f","g","h","i","j","k","l","m","n","o","p","q","r","s","t","u","v","w","x","y","z">>
DIGITS == <<"0","1","2","3","4","5","6","7","8","9">>

\* the backtick character (a string literal cannot hold it)
BT == "BACKTICK"

\* str.strip() with no argument removes these (the ASCII whitespace used here)
Whitespace == {" ", "\t", "\n", "\r"}

LowerChar(c) ==
    IF \E k \in 1..Len(UPPER) : UPPER[k] = c
    THEN LOWER[CHOOSE k \in 1..Len(UPPER) : UPPER[k] = c]
    ELSE c

\* str.lower()
Lower(s) == [i \in 1..Len(s) |-> LowerChar(s[i])]

SetMin(S) == CHOOSE x \in S : \A y \in S : x <= y
SetMax(S) == CHOOSE x \in S : \A y \in S : x >= y

\* str.strip()
Strip(s) ==
    LET keep == {i \in 1..Len(s) : s[i] \notin Whitespace}
    IN  IF keep = {} THEN <<>> ELSE SubSeq(s, SetMin(keep), SetMax(keep))

\* p occurs in s at index i
MatchAt(s, i, p) ==
    /\ i >= 1
    /\ i + Len(p) - 1 <= Len(s)
    /\ SubSeq(s, i, i + Len(p) - 1) = p

\* str.startswith(p)
StartsWith(s, p) == MatchAt(s, 1, p)

\* p in s
Contains(s, p) == \E i \in 1..(Len(s) - Len(p) + 1) : MatchAt(s, i, p)

\* any(test(x) for x in list)
AnyStartsWith(s, list) == \E k \in 1..Len(list) : StartsWith(s, list[k])
AnyContained(s, list) == \E k \in 1..Len(list) : Contains(s, list[k])

\* str.split(sep) for a one-character separator
RECURSIVE Split(_, _)
Split(s, sep) ==
    LET at == {i \in 1..Len(s) : s[i] = sep}
    IN  IF at = {} THEN <<s>>
        ELSE <<SubSeq(s, 1, SetMin(at) - 1)>>
             \o Split(SubSeq(s, SetMin(at) + 1, Len(s)), sep)

RECURSIVE Flatten(_)
Flatten(ss) == IF ss = <<>> THEN <<>> ELSE Head(ss) \o Flatten(Tail(ss))

\* the strings made of at most n elements of the set pieces, concatenated
RECURSIVE Concats(_, _)
Concats(pieces, n) ==
    IF n = 0 THEN {<<>>}
    ELSE LET shorter == Concats(pieces, n - 1)
         IN  shorter \cup {s \o p : s \in shorter, p \in pieces}

-----------------------------------------------------------------------------
(* CommandClassifier *)

SAFE_COMMANDS ==
    << <<"l","s">>,
       <<"c","d">>,
       <<"c","a","t">>,
       <<"p","w","d">>,
       <<"e","c","h","o">>,
       <<"w","h","i","c","h">>,
       <<"w","h","e","r","e","i","s">>,
       <<"m","a","n">>,
       <<"h","e","l","p">>,
       <<"g","r","e","p">>,
       <<"f","i","n","d">>,
       <<"h","e","a","d">>,
       <<"t","a","i","l">>,
       <<"l","e","s","s">>,
       <<"m","o","r","e">>,
       <<"w","c">>,
       <<"s","o","r","t">>,
       <<"u","n","i","q">>,
       <<"d","a","t","e">>,
       <<"c","a","l">>,
       <<"w","h","o","a","m","i">>,
       <<"i","d">>,
       <<"g","r","o","u","p","s">>,
       <<"h","i","s","t","o","r","y">>,
       <<"a","l","i","a","s">>,
       <<"t","y","p","e">>,
       <<"f","i","l","e">>,
       <<"s","t","a","t">>,
       <<"d","u">>,
       <<"d","f">>,
       <<"f","r","e","e">>,
       <<"u","p","t","i","m","e">>,
       <<"p","s">>,
       <<"t","o","p">>,
       <<"h","t","o","p">>,
       <<"g","i","t"," ","s","t","a","t","u","s">>,
       <<"g","i","t"," ","l","o","g">>,
       <<"g","i","t"," ","d","i","f","f">>,
       <<"g","i","t"," ","s","h","o","w">>,
       <<"g","i","t"," ","b","r","a","n","c","h">> >>

SUDO_COMMANDS ==
    << <<"s","u","d","o">>,
       <<"s","u">>,
       <<"p","a","s","s","w","d">>,
       <<"u","s","e","r","m","o","d">>,
       <<"g","r","o","u","p","m","o","d">>,
       <<"c","h","o","w","n">>,
       <<"c","h","m","o","d">>,
       <<"m","o","u","n","t">>,
       <<"u","m","o","u","n","t">>,
       <<"s","y","s","t","e","m","c","t","l">>,
       <<"s","e","r","v","i","c","e">>,
       <<"a","p","t">>,
       <<"y","u","m">>,
       <<"d","n","f">>,
       <<"p","a","c","m","a","n">>,
       <<"s","n","a","p">>,
       <<"p","i","p"," ","i","n","s","t","a","l","l">>,
       <<"n","p","m"," ","i","n","s","t","a","l","l">>,
       <<"g","e","m"," ","i","n","s","t","a","l","l">> >>

DANGEROUS_COMMANDS ==
    << <<"r","m"," ","-","r","f">>,
       <<"d","d">>,
       <<"m","k","f","s">>,
       <<"f","d","i","s","k">>,
       <<"p","a","r","t","e","d">>,
       <<"s","h","r","e","d">>,
       <<"w","i","p","e","f","s">>,
       <<":","(",")","{",":","|",":","&","}",";",":">>,
       <<":","(",")","{"," ",":","|",":","&"," ","}",";",":">>,
       <<"f","o","r","k","(",")">>,
       <<"w","h","i","l","e"," ","t","r","u","e">>,
       <<">"," ","/","d","e","v","/">>,
       <<"t","r","u","n","c","a","t","e">>,
       <<">","/","d","e","v","/","s","d","a">>,
       <<">","/","d","e","v","/","s","d">> >>

FILESYSTEM_DESTRUCTIVE ==
    << <<"r","m">>,
       <<"r","m","d","i","r">>,
       <<"m","v">>,
       <<"c","p">>,
       <<"l","n">>,
       <<"u","n","l","i","n","k">> >>

\* the literal list of classify_command's protected-path test
PROTECTED_PATHS ==
    << <<"/">>,
       <<"/","h","o","m","e">>,
       <<"/","e","t","c">>,
       <<"/","u","s","r">>,
       <<"/","v","a","r">>,
       <<"/","b","o","o","t">> >>

\* tier 1: any(danger in cmd_lower for danger in DANGEROUS_COMMANDS)
HasDangerousPattern(cmd_lower) == AnyContained(cmd_lower, DANGEROUS_COMMANDS)

\* tier 2 guard: any(cmd_lower.startswith(fs_cmd) ...)
IsFilesystemOp(cmd_lower) == AnyStartsWith(cmd_lower, FILESYSTEM_DESTRUCTIVE)

\* mutant of HasProtectedPath: the root path "/" is left out of the list
HasProtectedPathNoRoot(cmd_lower) == AnyContained(cmd_lower, Tail(PROTECTED_PATHS))

\* tier 2 test: any(path in cmd_lower for path in ["/", "/home", ...])
HasProtectedPath(cmd_lower) == AnyContained(cmd_lower, PROTECTED_PATHS)

\* mutant of classify_command: the command is not trimmed
classify_command_no_strip(cmd) ==
    LET cmd_lower == Lower(cmd)
    IN  IF HasDangerousPattern(cmd_lower) THEN "dangerous"
        ELSE IF IsFilesystemOp(cmd_lower)
             THEN IF HasProtectedPath(cmd_lower) THEN "dangerous" ELSE "sudo"
        ELSE IF AnyStartsWith(cmd_lower, SUDO_COMMANDS) THEN "sudo"
        ELSE IF AnyStartsWith(cmd_lower, SAFE_COMMANDS) THEN "safe"
        ELSE "unknown"

\* mutant of classify_command: the safe verbs are tested before the
\* dangerous patterns
classify_command_safe_first(cmd) ==
    LET cmd_lower == Strip(Lower(cmd))
    IN  IF AnyStartsWith(cmd_lower, SAFE_COMMANDS) THEN "safe"
        ELSE IF HasDangerousPattern(cmd_lower) THEN "dangerous"
        ELSE IF IsFilesystemOp(cmd_lower)
             THEN IF HasProtectedPath(cmd_lower) THEN "dangerous" ELSE "sudo"
        ELSE IF AnyStartsWith(cmd_lower, SUDO_COMMANDS) THEN "sudo"
        ELSE "unknown"

classify_command(cmd) ==
    LET cmd_lower == Strip(Lower(cmd))
    IN  IF HasDangerousPattern(cmd_lower) THEN "dangerous"
        ELSE IF IsFilesystemOp(cmd_lower)
             THEN IF HasProtectedPath(cmd_lower) THEN "dangerous" ELSE "sudo"
        ELSE IF AnyStartsWith(cmd_lower, SUDO_COMMANDS) THEN "sudo"
        ELSE IF AnyStartsWith(cmd_lower, SAFE_COMMANDS) THEN "safe"
        ELSE "unknown"

-----------------------------------------------------------------------------
(* CommandExtractor *)

FENCE == <<BT, BT, BT>>
TAG_bash == <<"b","a","s","h">>
TAG_sh == <<"s","h">>
TAG_shell == <<"s","h","e","l","l">>
NEWLINE == <<"\n">>

\* mutant of OpenFenceLen: the language tag is not optional
OpenFenceLenTagged(text, i) ==
    IF ~MatchAt(text, i, FENCE) THEN 0
    ELSE IF MatchAt(text, i + 3, TAG_bash \o NEWLINE) THEN 3 + Len(TAG_bash) + 1
    ELSE IF MatchAt(text, i + 3, TAG_sh \o NEWLINE) THEN 3 + Len(TAG_sh) + 1
    ELSE IF MatchAt(text, i + 3, TAG_shell \o NEWLINE) THEN 3 + Len(TAG_shell) + 1
    ELSE 0

\* length of  ```(?:bash|sh|shell)?\n  matched at index i, 0 when it does not
\* match there; the alternatives are tried in the order of the pattern
OpenFenceLen(text, i) ==
    IF ~MatchAt(text, i, FENCE) THEN 0
    ELSE IF MatchAt(text, i + 3, TAG_bash \o NEWLINE) THEN 3 + Len(TAG_bash) + 1
    ELSE IF MatchAt(text, i + 3, TAG_sh \o NEWLINE) THEN 3 + Len(TAG_sh) + 1
    ELSE IF MatchAt(text, i + 3, TAG_shell \o NEWLINE) THEN 3 + Len(TAG_shell) + 1
    ELSE IF MatchAt(text, i + 3, NEWLINE) THEN 3 + 1
    ELSE 0

\* (.*?)``` with DOTALL: the first ``` at or after index j, 0 when there is none
NextFence(text, j) ==
    LET at == {k \in j..Len(text) : MatchAt(text, k, FENCE)}
    IN  IF at = {} THEN 0 ELSE SetMin(at)

\* re.findall(r'```(?:bash|sh|shell)?\n(.*?)```', text, re.DOTALL), scanning
\* from index i: leftmost matches, not overlapping
RECURSIVE FindCodeBlocks(_, _)
FindCodeBlocks(text, i) ==
    IF i > Len(text) THEN <<>>
    ELSE LET n == OpenFenceLen(text, i)
             k == IF n = 0 THEN 0 ELSE NextFence(text, i + n)
         IN  IF k = 0 THEN FindCodeBlocks(text, i + 1)
             ELSE <<SubSeq(text, i + n, k - 1)>> \o FindCodeBlocks(text, k + 3)

\* the end of the longest run of [^`\n] starting at index j (j - 1 when empty)
RunEnd(text, j) ==
    LET stop == {k \in j..Len(text) : text[k] \in {BT, "\n"}}
    IN  IF stop = {} THEN Len(text) ELSE SetMin(stop) - 1

\* re.findall(r'`([^`\n]+)`', text), scanning from index i
RECURSIVE FindInline(_, _)
FindInline(text, i) ==
    IF i > Len(text) THEN <<>>
    ELSE IF text[i] # BT THEN FindInline(text, i + 1)
    ELSE LET e == RunEnd(text, i + 1)
         IN  IF e >= i + 1 /\ e + 1 <= Len(text) /\ text[e + 1] = BT
             THEN <<SubSeq(text, i + 1, e)>> \o FindInline(text, e + 2)
             ELSE FindInline(text, i + 1)

\* mutant of KeepLine: blank lines are kept
KeepLineBlank(line) == ~StartsWith(line, <<"#">>)

\* the filter of the code-block loop: line and not line.startswith('#')
KeepLine(line) == line # <<>> /\ ~StartsWith(line, <<"#">>)

\* the commands of one code block: block.strip().split('\n'), each stripped
BlockCommands(block) ==
    LET lines == Split(Strip(block), "\n")
        stripped == [i \in 1..Len(lines) |-> Strip(lines[i])]
    IN  SelectSeq(stripped, KeepLine)

INLINE_PREFIXES ==
    << <<"l","s">>,
       <<"c","d">>,
       <<"c","a","t">>,
       <<"g","r","e","p">>,
       <<"f","i","n","d">>,
       <<"m","k","d","i","r">>,
       <<"r","m">>,
       <<"c","p">>,
       <<"m","v">>,
       <<"s","u","d","o">>,
       <<"t","o","u","c","h">> >>

\* mutant of KeepInline: any span with a space is kept
KeepInlineAnyPrefix(cmd) == Contains(cmd, <<" ">>)

\* the filter of the inline loop, on the stripped span
KeepInline(cmd) == Contains(cmd, <<" ">>) /\ AnyStartsWith(cmd, INLINE_PREFIXES)

InlineCommands(spans) ==
    SelectSeq([i \in 1..Len(spans) |-> Strip(spans[i])], KeepInline)

\* mutant of extract_commands: the inline commands come first
extract_commands_inline_first(text) ==
    LET code_blocks == FindCodeBlocks(text, 1)
        inline_commands == FindInline(text, 1)
    IN  InlineCommands(inline_commands)
        \o Flatten([i \in 1..Len(code_blocks) |-> BlockCommands(code_blocks[i])])

extract_commands(text) ==
    LET code_blocks == FindCodeBlocks(text, 1)
        inline_commands == FindInline(text, 1)
    IN  Flatten([i \in 1..Len(code_blocks) |-> BlockCommands(code_blocks[i])])
        \o InlineCommands(inline_commands)

\* a command wrapped in a fenced block: ``` line, the command, ``` line
Fenced(c) == FENCE \o NEWLINE \o c \o NEWLINE \o FENCE

-----------------------------------------------------------------------------
(* Inputs *)

\* tokens concatenated into the commands given to classify_command
CmdTokens ==
    { <<"r","m">>,
       <<" ","-","r","f">>,
       <<" ">>,
       <<"/","e","t","c">>,
       <<"h","o","m","e">>,
       <<"l","s">>,
       <<"s","u","d","o">>,
       <<"d","d">>,
       <<"c","p">>,
       <<"C","a","t">>,
       <<"x">>,
       <<"/">> }

CmdInputs == Concats(CmdTokens, MaxWords)

\* pieces concatenated into the texts given to extract_commands
TextPieces ==
    { <<BT,BT,BT,"b","a","s","h","\n">>,
       <<BT,BT,BT,"\n">>,
       <<BT,BT,BT,"p","y","\n">>,
       <<"l","s"," ","a">>,
       <<"\n">>,
       <<BT>>,
       <<"#"," ","c">>,
       <<" ",BT,"c","a","t"," ","b",BT," ">>,
       <<"l","s">> }

TextInputs == Concats(TextPieces, MaxPieces)

-----------------------------------------------------------------------------
(* The UI collaborator: gum_confirm and gum_choose *)

\* what can happen to the gum helper of gum_confirm: the executable is
\* missing (FileNotFoundError), or it runs and exits with 0 or with another code
ConfirmHelpers == {"missing", "rc0", "nonzero"}

\* lines the user may type at the y/N fallback prompt
InputLines ==
    { <<"y">>,
       <<"y","e","s">>,
       <<" ","Y"," ">>,
       <<"n">>,
       <<>>,
       <<"y","e","a","h">> }

\* mutant of gum_confirm: an empty line is taken as yes (a Y/n prompt)
gum_confirm_default_yes(helper, line) ==
    IF helper = "missing"
    THEN [fallback |-> TRUE,
          ans |-> Lower(Strip(line)) \in {<<>>, <<"y">>, <<"y", "e", "s">>}]
    ELSE [fallback |-> FALSE, ans |-> (helper = "rc0")]

\* mutant of gum_confirm: a missing helper is taken as the answer no
gum_confirm_no_fallback(helper, line) ==
    [fallback |-> FALSE, ans |-> (helper = "rc0")]

\* gum_confirm: the answer, and whether the input() fallback was used
gum_confirm(helper, line) ==
    IF helper = "missing"
    THEN [fallback |-> TRUE,
          ans |-> Lower(Strip(line)) \in {<<"y">>, <<"y", "e", "s">>}]
    ELSE [fallback |-> FALSE, ans |-> (helper = "rc0")]

\* the sentinel of gum_choose
EXIT_OPTION == <<"D","o","n","'","t"," ","r","u","n"," ","a"," ","c","o","m","m","a","n","d">>

\* what can happen to the gum helper of gum_choose: FileNotFoundError,
\* CalledProcessError (check=True and a non-zero exit), or a normal exit
ChooseFailures == {"missing", "nonzero"}

\* full_options = options + [EXIT_OPTION]
full_options(options) == Append(options, EXIT_OPTION)

\* what the helper can write on stdout when it exits with 0: one of the
\* options it was given followed by a newline, or nothing
HelperOutputs(options) ==
    {full_options(options)[k] \o <<"\n">> : k \in 1..Len(options) + 1} \cup {<<>>}

\* gum_choose, helper branch: selected = result.stdout.strip()
gum_choose_selected(stdout) ==
    LET selected == Strip(stdout)
    IN  IF selected = <<>> THEN EXIT_OPTION ELSE selected

\* lines the user may type at the fallback menu
MenuInputs ==
    { <<"0">>,
       <<"1">>,
       <<"2">>,
       <<" ","3"," ">>,
       <<"7">>,
       <<"x">>,
       <<>>,
       <<"-","1">> }

IsDigit(c) == \E k \in 1..Len(DIGITS) : DIGITS[k] = c
DigitValue(c) == (CHOOSE k \in 1..Len(DIGITS) : DIGITS[k] = c) - 1

RECURSIVE DigitsValue(_)
DigitsValue(ds) ==
    IF ds = <<>> THEN 0
    ELSE 10 * DigitsValue(SubSeq(ds, 1, Len(ds) - 1)) + DigitValue(ds[Len(ds)])

\* int(line): surrounding whitespace and one sign are accepted; anything else
\* raises ValueError
ParseInt(line) ==
    LET s == Strip(line)
        signed == s # <<>> /\ s[1] \in {"+", "-"}
        ds == IF signed THEN Tail(s) ELSE s
    IN  IF ds = <<>> \/ \E i \in 1..Len(ds) : ~IsDigit(ds[i])
        THEN [ok |-> FALSE, val |-> 0]
        ELSE [ok |-> TRUE,
              val |-> IF signed /\ s[1] = "-" THEN 0 - DigitsValue(ds)
                      ELSE DigitsValue(ds)]

\* mutant of gum_choose_fallback: an out-of-range number ends the menu with
\* the sentinel
gum_choose_fallback_gives_up(options, line) ==
    LET n == ParseInt(line)
    IN  IF ~n.ok THEN [done |-> FALSE, value |-> <<>>, said |-> "enter_number"]
        ELSE IF 1 <= n.val /\ n.val <= Len(options)
             THEN [done |-> TRUE, value |-> options[n.val], said |-> ""]
        ELSE [done |-> TRUE, value |-> EXIT_OPTION, said |-> ""]

\* gum_choose, one turn of the fallback loop: the value returned, or a retry
gum_choose_fallback(options, line) ==
    LET n == ParseInt(line)
    IN  IF ~n.ok THEN [done |-> FALSE, value |-> <<>>, said |-> "enter_number"]
        ELSE IF n.val = 0 THEN [done |-> TRUE, value |-> EXIT_OPTION, said |-> ""]
        ELSE IF 1 <= n.val /\ n.val <= Len(options)
             THEN [done |-> TRUE, value |-> options[n.val], said |-> ""]
        ELSE [done |-> FALSE, value |-> <<>>, said |-> "invalid_choice"]

-----------------------------------------------------------------------------
(* Backend selection (config.py) *)

\* the states of config.json that get_backend can meet
ConfigFiles == {"absent", "gpt", "claude", "ollama", "gemini", "no_backend_key",
                "malformed", "unreadable"}

\* get_backend: the name returned, or the exception open()/json.load() raises
get_backend(cf) ==
    IF cf = "absent" THEN [raised |-> FALSE, value |-> "ollama"]
    ELSE IF cf \in {"malformed", "unreadable"} THEN [raised |-> TRUE, value |-> "none"]
    ELSE IF cf = "no_backend_key" THEN [raised |-> FALSE, value |-> "ollama"]
    ELSE [raised |-> FALSE, value |-> cf]

\* the names main() knows how to import
KnownBackends == {"gpt", "claude", "ollama"}

\* replies the backend may give
Responses ==
    { <<"N","o"," ","c","o","m","m","a","n","d","s"," ","h","e","r","e",".">>,
       <<"T","r","y",":","\n",BT,BT,BT,"b","a","s","h","\n","#"," ","l","i","s","t"," ","f","i","l","e","s","\n","l","s"," ","-","l","a","\n",BT,BT,BT>>,
       <<"U","s","e"," ",BT,"r","m"," ","-","r","f"," ","/",BT," ","n","o","w">>,
       <<BT,BT,BT,"\n","s","u","d","o"," ","a","p","t"," ","u","p","d","a","t","e","\n","r","m"," ","a",".","t","x","t","\n",BT,BT,BT>>,
       <<BT,BT,BT,"s","h","\n","f","o","o"," ","-","-","b","a","r","\n","D","o","n","'","t"," ","r","u","n"," ","a"," ","c","o","m","m","a","n","d","\n",BT,BT,BT>>,
       <<BT,BT,BT,"\n","d","d"," ","i","f","=","a"," ","o","f","=","b","\n",BT,BT,BT," ","o","r"," ",BT,"m","v"," ","a"," ","/","e","t","c",BT>> }

-----------------------------------------------------------------------------
(* The gate: handle_command_execution and execute_command *)

OPT_EXPLAIN == <<"SIREN", " ">> \o <<"E","x","p","l","a","i","n"," ","r","i","s","k","s"," ","f","i","r","s","t">>
OPT_PROCEED == <<"LOCK", " ">> \o <<"I"," ","u","n","d","e","r","s","t","a","n","d"," ","t","h","e"," ","r","i","s","k","s",","," ","p","r","o","c","e","e","d"," ","a","n","y","w","a","y">>
OPT_CANCEL == <<"CROSS", " ">> \o <<"C","a","n","c","e","l">>

\* the three options of the Dangerous prompt
GateOptions == <<OPT_EXPLAIN, OPT_PROCEED, OPT_CANCEL>>

\* mutant of ChoiceBranch: "proceed anyway" also goes through the explanation
ChoiceBranchAlwaysExplain(ch) ==
    IF ch # <<>> /\ (StartsWith(ch, <<"SIREN">>) \/ StartsWith(ch, <<"LOCK">>))
    THEN "explain"
    ELSE "reject"

\* mutant of ChoiceBranch: the explanation is skipped
ChoiceBranchNoExplain(ch) ==
    IF ch # <<>> /\ (StartsWith(ch, <<"SIREN">>) \/ StartsWith(ch, <<"LOCK">>))
    THEN "proceed"
    ELSE "reject"

\* the branch taken on the value of gum_choose
ChoiceBranch(ch) ==
    IF ch # <<>> /\ StartsWith(ch, <<"SIREN">>) THEN "explain"
    ELSE IF ch # <<>> /\ StartsWith(ch, <<"LOCK">>) THEN "proceed"
    ELSE "reject"

\* explain_command_risks: the prompt sent to the backend
risk_prompt(cmd) ==
    <<"Explain the potential risks and dangers of running this command: '">>
    \o cmd \o <<"'. What could go wrong? What precautions should be taken?">>

\* what the subprocess of execute_command can do: exit with 0 or another
\* code, or fail to start (the except branch)
RunOutcomes == {"rc0", "nonzero", "spawn_error"}

\* mutant of execute_command: the Executing line is not printed
execute_command_quiet(outcome, hasStdout, hasStderr) ==
    [printed |-> IF outcome = "spawn_error" THEN <<>>
                 ELSE (IF hasStdout THEN <<"output">> ELSE <<>>)
                      \o (IF hasStderr THEN <<"errors">> ELSE <<>>),
     ret |-> (outcome = "rc0")]

\* execute_command: the lines printed and the value returned
execute_command(outcome, hasStdout, hasStderr) ==
    [printed |-> <<"executing">>
                 \o (IF outcome = "spawn_error" THEN <<"exec_error">>
                     ELSE (IF hasStdout THEN <<"output">> ELSE <<>>)
                          \o (IF hasStderr THEN <<"errors">> ELSE <<>>)),
     ret |-> (outcome = "rc0")]

\* an entry of events
Event(op, site, helper, fallback, ok, arg) ==
    [op |-> op, site |-> site, helper |-> helper, fallback |-> fallback,
     ok |-> ok, arg |-> arg]

-----------------------------------------------------------------------------
(* The state before main() runs, and the idle values of the parts of the   *)
(* state a specification does not use                                      *)

ControlIdle ==
    /\ hasPrompt = FALSE
    /\ configFile = "absent"
    /\ backend = "none"
    /\ fault = "none"
    /\ exitCode = -1
    /\ chOptions = <<>>
    /\ chSite = "none"
    /\ chHelper = "none"
    /\ chRetries = 0
    /\ choice = <<>>
    /\ gateResult = "none"
    /\ events = <<>>
    /\ log = <<>>

controlVars == <<hasPrompt, configFile, backend, fault, exitCode, chOptions,
                 chSite, chHelper, chRetries, choice, gateResult, events, log>>

-----------------------------------------------------------------------------
(* classify_command applied to every command of CmdInputs *)

InitClassify ==
    /\ pc = "classify"
    /\ command \in CmdInputs
    /\ classification = "none"
    /\ response = <<>>
    /\ commands = <<>>
    /\ rtCmd = <<>>
    /\ rtResult = <<>>
    /\ typed = <<>>
    /\ ControlIdle

ClassifyStep ==
    /\ pc = "classify"
    /\ classification' = classify_command(command)
    /\ pc' = "classified"
    /\ UNCHANGED <<command, response, commands, rtCmd, rtResult, typed, controlVars>>

NextClassify == ClassifyStep

SpecClassify == InitClassify /\ [][NextClassify]_vars

-----------------------------------------------------------------------------
(* extract_commands applied to every text of TextInputs, and then to each  *)
(* returned command wrapped in a fenced block                              *)

InitExtract ==
    /\ pc = "extract"
    /\ response \in TextInputs
    /\ commands = <<>>
    /\ command = <<>>
    /\ classification = "none"
    /\ rtCmd = <<>>
    /\ rtResult = <<>>
    /\ typed = <<>>
    /\ ControlIdle

ExtractStep ==
    /\ pc = "extract"
    /\ commands' = extract_commands(response)
    /\ pc' = "extracted"
    /\ UNCHANGED <<response, command, classification, rtCmd, rtResult, typed, controlVars>>

RoundTripStep ==
    /\ pc = "extracted"
    /\ \E i \in 1..Len(commands) :
         /\ rtCmd' = commands[i]
         /\ rtResult' = extract_commands(Fenced(commands[i]))
    /\ pc' = "roundtrip"
    /\ UNCHANGED <<response, commands, command, classification, typed, controlVars>>

NextExtract == ExtractStep \/ RoundTripStep

SpecExtract == InitExtract /\ [][NextExtract]_vars

-----------------------------------------------------------------------------
(* gum_confirm applied to every line of ConfirmLines, for every state of   *)
(* the gum helper                                                          *)

\* characters of the lines typed at the y/N prompt
LineChars == {"y", "e", "s", "n", "Y", " "}

\* the lines of at most n characters
RECURSIVE LinesUpTo(_)
LinesUpTo(n) ==
    IF n = 0 THEN {<<>>}
    ELSE LinesUpTo(n - 1)
         \cup {Append(l, c) : l \in LinesUpTo(n - 1), c \in LineChars}

ConfirmLines == LinesUpTo(MaxLineLen)

InitConfirm ==
    /\ pc = "confirm"
    /\ typed \in ConfirmLines
    /\ response = <<>>
    /\ commands = <<>>
    /\ command = <<>>
    /\ classification = "none"
    /\ rtCmd = <<>>
    /\ rtResult = <<>>
    /\ ControlIdle

\* one call of gum_confirm; typed is the line the user gives to input(), which
\* is called (and prints its prompt) only in the fallback
ConfirmStep ==
    /\ pc = "confirm"
    /\ \E h \in ConfirmHelpers :
         LET r == gum_confirm(h, typed)
         IN  /\ events' = Append(events, Event("confirm", "none", h, r.fallback,
                                               r.ans, <<>>))
             /\ log' = IF r.fallback THEN Append(log, "confirm_prompt") ELSE log
    /\ pc' = "confirmed"
    /\ UNCHANGED <<hasPrompt, configFile, backend, fault, exitCode, response,
                   commands, chOptions, chSite, chHelper, chRetries, choice,
                   command, classification, gateResult, typed, rtCmd, rtResult>>

NextConfirm == ConfirmStep

SpecConfirm == InitConfirm /\ [][NextConfirm]_vars

-----------------------------------------------------------------------------
(* One run of the program: main(), process_ai_response, the gate *)

Init ==
    /\ pc = "main"
    /\ response = <<>>
    /\ commands = <<>>
    /\ command = <<>>
    /\ classification = "none"
    /\ rtCmd = <<>>
    /\ rtResult = <<>>
    /\ typed = <<>>
    /\ ControlIdle

pureVars == <<rtCmd, rtResult>>

\* sys.exit(code), an uncaught exception (code 1), or the end of main (code 0)
Exit(code, why) ==
    /\ pc' = "exit"
    /\ exitCode' = code
    /\ fault' = why

\* main, lines 411-415: the usage check
MainArgs ==
    /\ pc = "main"
    /\ \E p \in BOOLEAN :
         /\ hasPrompt' = p
         /\ IF p
            THEN /\ pc' = "get_backend"
                 /\ UNCHANGED <<exitCode, fault, log>>
            ELSE /\ log' = Append(log, "usage")
                 /\ Exit(1, "no_prompt")
    /\ UNCHANGED <<configFile, backend, response, commands, chOptions, chSite,
                   chHelper, chRetries, choice, command, classification,
                   gateResult, events, pureVars, typed>>

\* main, line 416: backend = get_backend(), called outside the try block, so
\* an exception it raises ends the process with a traceback and code 1
MainGetBackend ==
    /\ pc = "get_backend"
    /\ \E cf \in ConfigFiles :
         LET r == get_backend(cf)
         IN  /\ configFile' = cf
             /\ IF r.raised
                THEN /\ Exit(1, "config_error")
                     /\ UNCHANGED backend
                ELSE /\ backend' = r.value
                     /\ pc' = "import"
                     /\ UNCHANGED <<exitCode, fault>>
    /\ UNCHANGED <<hasPrompt, response, commands, chOptions, chSite, chHelper,
                   chRetries, choice, command, classification, gateResult,
                   events, log, pureVars, typed>>

\* main, lines 423-435 and 443-445: the import of the backend module
MainImport ==
    /\ pc = "import"
    /\ IF backend \notin KnownBackends
       THEN /\ log' = Append(log, "unknown_backend")
            /\ Exit(1, "unknown_backend")
       ELSE \E ok \in BOOLEAN :
              IF ok
              THEN /\ pc' = "query"
                   /\ UNCHANGED <<exitCode, fault, log>>
              ELSE /\ log' = Append(log, "import_error")
                   /\ Exit(1, "import_error")
    /\ UNCHANGED <<hasPrompt, configFile, backend, response, commands,
                   chOptions, chSite, chHelper, chRetries, choice, command,
                   classification, gateResult, events, pureVars, typed>>

\* main, lines 438 and 446-448: the query of the backend
MainQuery ==
    /\ pc = "query"
    /\ \E ok \in BOOLEAN :
         /\ events' = Append(events, Event("query", "main", "none", FALSE, ok, <<>>))
         /\ IF ok
            THEN /\ \E r \in Responses : response' = r
                 /\ pc' = "process"
                 /\ UNCHANGED <<exitCode, fault, log>>
            ELSE /\ log' = Append(log, "query_error")
                 /\ Exit(1, "query_error")
                 /\ UNCHANGED response
    /\ UNCHANGED <<hasPrompt, configFile, backend, commands, chOptions, chSite,
                   chHelper, chRetries, choice, command, classification,
                   gateResult, pureVars, typed>>

\* the call gum_choose(options, header) from the given site
CallGumChoose(options, site) ==
    /\ chOptions' = options
    /\ chSite' = site
    /\ chHelper' = "none"
    /\ chRetries' = 0
    /\ pc' = "gum_choose"

\* process_ai_response, lines 371-385: show the reply, extract, offer a choice
ProcessAiResponse ==
    /\ pc = "process"
    /\ LET found == extract_commands(response)
       IN  /\ commands' = found
           /\ IF found = <<>>
              THEN /\ log' = log \o <<"response", "no_commands">>
                   /\ Exit(0, "none")
                   /\ UNCHANGED <<chOptions, chSite, chHelper, chRetries>>
              ELSE /\ log' = log \o <<"response", "found">>
                   /\ CallGumChoose(found, "process")
                   /\ UNCHANGED <<exitCode, fault>>
    /\ UNCHANGED <<hasPrompt, configFile, backend, response, choice, command,
                   classification, gateResult, events, pureVars, typed>>

\* the return of gum_choose to its caller
ReturnGumChoose(value, helper, usedFallback) ==
    /\ choice' = value
    /\ events' = Append(events, Event("choose", chSite, helper, usedFallback,
                                      value # EXIT_OPTION, value))
    /\ pc' = IF chSite = "process" THEN "process_chosen" ELSE "gate_chosen"

\* gum_choose, lines 218-227: the helper runs and exits with 0
GumChooseHelper ==
    /\ pc = "gum_choose"
    /\ \E out \in HelperOutputs(chOptions) :
         ReturnGumChoose(gum_choose_selected(out), "ok", FALSE)
    /\ chHelper' = "ok"
    /\ UNCHANGED <<hasPrompt, configFile, backend, fault, exitCode, response,
                   commands, chOptions, chSite, chRetries, command,
                   classification, gateResult, log, pureVars, typed>>

\* gum_choose, lines 229-236: the helper is missing or fails; the menu is printed
GumChooseUnavailable ==
    /\ pc = "gum_choose"
    /\ \E h \in ChooseFailures : chHelper' = h
    /\ log' = log \o <<"gum_warning", "menu">>
    /\ pc' = "choose_input"
    /\ UNCHANGED <<hasPrompt, configFile, backend, fault, exitCode, response,
                   commands, chOptions, chSite, chRetries, choice, command,
                   classification, gateResult, events, pureVars, typed>>

\* gum_choose, lines 238-248: one turn of the fallback loop
GumChooseInput ==
    /\ pc = "choose_input"
    /\ \E line \in MenuInputs :
         LET r == gum_choose_fallback(chOptions, line)
         IN  /\ typed' = line
             /\ IF r.done
                THEN /\ ReturnGumChoose(r.value, chHelper, TRUE)
                     /\ UNCHANGED <<chRetries, log>>
                ELSE /\ chRetries < MaxRetries
                     /\ chRetries' = chRetries + 1
                     /\ log' = Append(log, r.said)
                     /\ UNCHANGED <<pc, choice, events>>
    /\ UNCHANGED <<hasPrompt, configFile, backend, fault, exitCode, response,
                   commands, chOptions, chSite, chHelper, command,
                   classification, gateResult, pureVars>>

\* mutant of IsSentinel: the sentinel is not recognised
IsSentinelNever(ch) == FALSE

\* process_ai_response, line 388: choice == "Don't run a command"
IsSentinel(ch) == ch = EXIT_OPTION

\* process_ai_response, lines 388-396: the sentinel stops the round, any
\* other choice is handed to the gate
ProcessChosen ==
    /\ pc = "process_chosen"
    /\ IF IsSentinel(choice)
       THEN /\ log' = Append(log, "no_command_executed")
            /\ Exit(0, "none")
            /\ UNCHANGED command
       ELSE /\ command' = choice
            /\ pc' = "gate"
            /\ UNCHANGED <<exitCode, fault, log>>
    /\ UNCHANGED <<hasPrompt, configFile, backend, response, commands,
                   chOptions, chSite, chHelper, chRetries, choice,
                   classification, gateResult, events, pureVars, typed>>

\* handle_command_execution, lines 280-299 and 313: classify, print, and
\* start the tier's protocol
GateClassify ==
    /\ pc = "gate"
    /\ LET tier == classify_command(command)
       IN  /\ classification' = tier
           /\ log' = log \o <<"command", "classification">>
           /\ IF tier = "dangerous"
              THEN CallGumChoose(GateOptions, "gate")
              ELSE /\ pc' = "gate_confirm"
                   /\ UNCHANGED <<chOptions, chSite, chHelper, chRetries>>
    /\ UNCHANGED <<hasPrompt, configFile, backend, fault, exitCode, response,
                   commands, choice, command, gateResult, events, pureVars, typed>>

\* handle_command_execution, lines 301, 309 and 317: the branch on the choice
GateChosen ==
    /\ pc = "gate_chosen"
    /\ LET branch == ChoiceBranch(choice)
       IN  IF branch = "explain" THEN pc' = "explain" /\ UNCHANGED gateResult
           ELSE IF branch = "proceed" THEN pc' = "gate_confirm" /\ UNCHANGED gateResult
           ELSE pc' = "gate_return" /\ gateResult' = "false"
    /\ UNCHANGED <<hasPrompt, configFile, backend, fault, exitCode, response,
                   commands, chOptions, chSite, chHelper, chRetries, choice,
                   command, classification, events, log, pureVars, typed>>

\* mutant of GateExplain: a failed risk query is swallowed and the gate goes
\* on to its confirm
GateExplainSwallows ==
    /\ pc = "explain"
    /\ \E ok \in BOOLEAN :
         LET asked == Event("query", "explain", "none", FALSE, ok, risk_prompt(command))
         IN  IF ok
             THEN /\ events' = events \o <<asked, Event("display", "explain", "none",
                                                        FALSE, TRUE, <<>>)>>
                  /\ log' = Append(log, "risk_analysis")
             ELSE /\ events' = Append(events, asked)
                  /\ log' = Append(log, "query_error")
    /\ pc' = "gate_confirm"
    /\ UNCHANGED <<hasPrompt, configFile, backend, response, commands,
                   chOptions, chSite, chHelper, chRetries, choice, command,
                   classification, gateResult, exitCode, fault, pureVars, typed>>

\* handle_command_execution, lines 303-304, with explain_command_risks: the
\* backend is queried and its answer printed; an exception of the query
\* leaves the gate and is caught by main's except Exception (lines 446-448)
GateExplain ==
    /\ pc = "explain"
    /\ \E ok \in BOOLEAN :
         LET asked == Event("query", "explain", "none", FALSE, ok, risk_prompt(command))
         IN  IF ok
             THEN /\ events' = events \o <<asked, Event("display", "explain", "none",
                                                        FALSE, TRUE, <<>>)>>
                  /\ log' = Append(log, "risk_analysis")
                  /\ pc' = "gate_confirm"
                  /\ UNCHANGED <<gateResult, exitCode, fault>>
             ELSE /\ events' = Append(events, asked)
                  /\ log' = Append(log, "query_error")
                  /\ gateResult' = "raised"
                  /\ Exit(1, "explain_query_error")
    /\ UNCHANGED <<hasPrompt, configFile, backend, response, commands,
                   chOptions, chSite, chHelper, chRetries, choice, command,
                   classification, pureVars, typed>>

\* which confirm of handle_command_execution is being asked
ConfirmSite ==
    IF classification # "dangerous" THEN classification
    ELSE ChoiceBranch(choice)

\* mutant of ConfirmAllows: the answer is ignored
ConfirmAllowsAlways(ans) == TRUE

\* whether the gate goes on to execute_command after a confirm
ConfirmAllows(ans) == ans

\* handle_command_execution, lines 286, 290, 306, 310 and 314: the yes/no
\* confirmation of the tier
GateConfirm ==
    /\ pc = "gate_confirm"
    /\ \E h \in ConfirmHelpers, line \in InputLines :
         LET r == gum_confirm(h, line)
         IN  /\ events' = Append(events, Event("confirm", ConfirmSite, h,
                                               r.fallback, r.ans, <<>>))
             /\ IF ConfirmAllows(r.ans)
                THEN pc' = "execute" /\ UNCHANGED gateResult
                ELSE pc' = "gate_return" /\ gateResult' = "false"
    /\ UNCHANGED <<hasPrompt, configFile, backend, fault, exitCode, response,
                   commands, chOptions, chSite, chHelper, chRetries, choice,
                   command, classification, log, pureVars, typed>>

\* execute_command, lines 332-353, and the return of its value by the gate
ExecuteCommand ==
    /\ pc = "execute"
    /\ \E outcome \in RunOutcomes, hasStdout \in BOOLEAN, hasStderr \in BOOLEAN :
         LET r == execute_command(outcome, hasStdout, hasStderr)
         IN  /\ events' = Append(events, Event("run", "gate", outcome, FALSE,
                                               r.ret, command))
             /\ log' = log \o r.printed
             /\ gateResult' = IF r.ret THEN "true" ELSE "false"
    /\ pc' = "gate_return"
    /\ UNCHANGED <<hasPrompt, configFile, backend, fault, exitCode, response,
                   commands, chOptions, chSite, chHelper, chRetries, choice,
                   command, classification, pureVars, typed>>

\* the gate returns, process_ai_response drops its value, main ends
MainEnd ==
    /\ pc = "gate_return"
    /\ Exit(0, "none")
    /\ UNCHANGED <<hasPrompt, configFile, backend, response, commands,
                   chOptions, chSite, chHelper, chRetries, choice, command,
                   classification, gateResult, events, log, pureVars, typed>>

Next ==
    \/ MainArgs
    \/ MainGetBackend
    \/ MainImport
    \/ MainQuery
    \/ ProcessAiResponse
    \/ GumChooseHelper
    \/ GumChooseUnavailable
    \/ GumChooseInput
    \/ ProcessChosen
    \/ GateClassify
    \/ GateChosen
    \/ GateExplain
    \/ GateConfirm
    \/ ExecuteCommand
    \/ MainEnd

Spec == Init /\ [][Next]_vars

-----------------------------------------------------------------------------
(* Properties *)

EventsOf(op) == {i \in 1..Len(events) : events[i].op = op}

\* the number of times execute_command was invoked
Runs == Cardinality(EventsOf("run"))

\* an interaction of the gate that the user answered with a rejection: a
\* confirm answered false, or a Dangerous prompt that returned anything but
\* "Explain risks first" or "proceed anyway" (Cancel, the sentinel)
IsRejection(e) ==
    \/ e.op = "confirm" /\ ~e.ok
    \/ e.op = "choose" /\ e.site = "gate" /\ e.arg \notin {OPT_EXPLAIN, OPT_PROCEED}

Rejected == \E i \in 1..Len(events) : IsRejection(events[i])

\* C1: the runner is invoked at most once, and only after a confirm that was
\* answered true and with no rejection among the gate's interactions; after a
\* rejection the gate asks nothing more and ends with result false, and the
\* runner is not invoked.
C1_RunOnlyWhenApproved ==
    /\ Runs <= 1
    /\ Runs = 1 =>
         /\ ~Rejected
         /\ \E i \in EventsOf("confirm") :
              events[i].ok /\ \A j \in EventsOf("run") : i < j
    /\ Rejected =>
         /\ Runs = 0
         /\ pc \in {"gate_chosen", "gate_return", "exit"}
         /\ pc # "gate_chosen" => gateResult = "false"
         /\ \A i \in 1..Len(events) : IsRejection(events[i]) => i = Len(events)

\* C1 witness: Cancel was chosen at the Dangerous prompt and the run is over
C1_Witness ==
    /\ pc = "exit"
    /\ gateResult = "false"
    /\ \E i \in EventsOf("choose") :
         events[i].site = "gate" /\ events[i].arg = OPT_CANCEL

\* C2: a command whose trimmed lower-cased text contains a dangerous pattern
\* is classified dangerous, whatever verb it starts with.
C2_DangerousPatternWins ==
    (pc = "classified" /\ AnyContained(Strip(Lower(command)), DANGEROUS_COMMANDS))
        => classification = "dangerous"

\* C2 witness: a command that starts with a safe verb and holds a pattern
C2_Witness ==
    /\ pc = "classified"
    /\ AnyContained(Strip(Lower(command)), DANGEROUS_COMMANDS)
    /\ AnyStartsWith(Strip(Lower(command)), SAFE_COMMANDS)
    /\ classification = "dangerous"

StartsWithFsVerb(cmd) == AnyStartsWith(Strip(Lower(cmd)), FILESYSTEM_DESTRUCTIVE)
HoldsProtectedPath(cmd) == AnyContained(Strip(Lower(cmd)), PROTECTED_PATHS)
HoldsDangerousPattern(cmd) == AnyContained(Strip(Lower(cmd)), DANGEROUS_COMMANDS)

\* C3 as stated: a command that starts with a filesystem-mutating verb is
\* dangerous if it holds a protected path and sudo if it holds none.
C3_Original ==
    (pc = "classified" /\ StartsWithFsVerb(command)) =>
        classification = (IF HoldsProtectedPath(command) THEN "dangerous" ELSE "sudo")

\* C3 amended: a command that starts with a filesystem-mutating verb is
\* dangerous if it holds a protected path, and sudo if it holds neither a
\* protected path nor a dangerous pattern.
C3_FsVerbTiers ==
    (pc = "classified" /\ StartsWithFsVerb(command)) =>
        /\ HoldsProtectedPath(command) => classification = "dangerous"
        /\ (~HoldsProtectedPath(command) /\ ~HoldsDangerousPattern(command))
              => classification = "sudo"

\* C3 witness: a filesystem verb on the root path, with no dangerous pattern
C3_Witness ==
    /\ pc = "classified"
    /\ StartsWithFsVerb(command)
    /\ HoldsProtectedPath(command)
    /\ ~HoldsDangerousPattern(command)
    /\ classification = "dangerous"

\* the index in events of the Dangerous prompt answered "Explain risks
\* first", 0 when there is none
ExplainChosenAt ==
    LET at == {i \in EventsOf("choose") :
                 events[i].site = "gate" /\ events[i].arg = OPT_EXPLAIN}
    IN  IF at = {} THEN 0 ELSE SetMin(at)

\* what the gate did after "Explain risks first" was chosen
AfterExplain == SubSeq(events, ExplainChosenAt + 1, Len(events))

\* the gate returned a value (it was not left by an exception)
GateReturned == pc \in {"gate_return", "exit"} /\ gateResult \in {"true", "false"}

\* C4: after "Explain risks first" the gate does, in this order, one backend
\* query whose prompt holds the command, the display of the answer, one
\* confirm, and the run only after that confirm returned true; a gate that
\* returns has done the query, the display and the confirm.
C4_ExplainOrder ==
    ExplainChosenAt > 0 =>
        LET t == AfterExplain
        IN  /\ Len(t) <= 4
            /\ Len(t) >= 1 =>
                 /\ t[1].op = "query" /\ t[1].site = "explain"
                 /\ Contains(t[1].arg, command)
            /\ Len(t) >= 2 => t[1].ok /\ t[2].op = "display"
            /\ Len(t) >= 3 => t[3].op = "confirm" /\ t[3].site = "explain"
            /\ Len(t) = 4 => t[3].ok /\ t[4].op = "run" /\ t[4].arg = command
            /\ GateReturned => Len(t) >= 3 /\ (Len(t) = 4 <=> t[3].ok)

\* C4 witness: the command ran after the explanation and the confirm
C4_Witness ==
    /\ ExplainChosenAt > 0
    /\ Len(AfterExplain) = 4
    /\ pc = "exit"

\* the gum_choose calls of process_ai_response that have returned
ProcessChoices == {i \in EventsOf("choose") : events[i].site = "process"}

\* handle_command_execution was entered (its first print)
GateInvocations == Cardinality({i \in 1..Len(log) : log[i] = "command"})

\* the extraction of process_ai_response has been done
Extracted == pc \notin {"main", "get_backend", "import", "query", "process"}

\* C5: with no extracted command the round stops with no chooseOne, no
\* confirm, no gate and no run; otherwise chooseOne is asked once, over the
\* extracted commands; on the sentinel the gate is not invoked; the gate is
\* invoked at most once and only with the non-sentinel selection.
C5_PresenterRound ==
    /\ (Extracted /\ commands = <<>> /\ fault = "none") =>
         /\ pc = "exit"
         /\ EventsOf("choose") = {} /\ EventsOf("confirm") = {} /\ Runs = 0
         /\ GateInvocations = 0
    /\ Cardinality(ProcessChoices) <= 1
    /\ (pc \in {"gum_choose", "choose_input"} /\ chSite = "process") =>
         chOptions = commands /\ commands # <<>> /\ ProcessChoices = {}
    /\ \A i \in ProcessChoices :
         /\ events[i].arg = EXIT_OPTION =>
              GateInvocations = 0 /\ Runs = 0 /\ EventsOf("confirm") = {}
                /\ pc \in {"process_chosen", "exit"}
         /\ events[i].arg # EXIT_OPTION /\ pc # "process_chosen" =>
              command = events[i].arg
    /\ GateInvocations <= 1
    /\ GateInvocations = 1 =>
         \E i \in ProcessChoices : events[i].arg # EXIT_OPTION /\ events[i].arg = command

\* C5 witness: the sentinel was selected and the run ended without the gate
C5_Witness ==
    /\ pc = "exit"
    /\ \E i \in ProcessChoices : events[i].arg = EXIT_OPTION
    /\ GateInvocations = 0

\* C6 as stated: the exit code is 1 exactly when the prompt is missing, the
\* import of the backend fails or a query of the backend fails, and 0 in
\* every other run.
C6_ExitCodes ==
    pc = "exit" =>
        (exitCode = 1 <=>
            fault \in {"no_prompt", "import_error", "query_error", "explain_query_error"})

\* C7 as stated: an unreadable or malformed config file is not fatal;
\* get_backend gives the default backend and the run goes on.
C7_ConfigNeverFatal ==
    configFile \in {"malformed", "unreadable"} =>
        backend = "ollama" /\ fault # "config_error" /\ exitCode # 1

\* a command that was approved and whose execution failed
FailedRun == \E i \in EventsOf("run") : ~events[i].ok

Printed(line) == \E i \in 1..Len(log) : log[i] = line

\* C8: when the gate returns false, the printed output tells a declined
\* command from an approved command that failed: the Executing line is
\* printed for the second and never for the first.
C8_DeclinedVsFailed ==
    (GateReturned /\ gateResult = "false") =>
        /\ Rejected => ~Printed("executing")
        /\ FailedRun => Printed("executing")
        /\ Rejected \/ FailedRun

\* C8 witness: an approved command that could not be started
C8_Witness ==
    /\ GateReturned /\ gateResult = "false"
    /\ \E i \in EventsOf("run") : events[i].helper = "spawn_error"

\* the interactions whose gum helper was missing or exited with non-zero
HelperUnavailable(e) ==
    e.op \in {"confirm", "choose"} /\ e.helper \in {"missing", "nonzero"}

\* the options a returned gum_choose was called with
OfferedAt(i) == IF events[i].site = "process" THEN commands ELSE GateOptions

\* C9 as stated: confirm and chooseOne both use their plain-text fallback
\* whenever the helper is missing or exits with a non-zero code.
C9_Original ==
    \A i \in 1..Len(events) : HelperUnavailable(events[i]) => events[i].fallback

\* C9 amended: chooseOne uses its numbered menu when the helper is missing or
\* exits with non-zero, and returns an offered option or the sentinel;
\* confirm reads a y/N line only when the helper is missing, and takes a
\* non-zero exit of the helper as the answer no; a run in which only the
\* helper failed does not end with exit code 1.
C9_HelperFallback ==
    /\ \A i \in EventsOf("choose") :
         /\ events[i].helper \in {"missing", "nonzero"} <=> events[i].fallback
         /\ \/ events[i].arg = EXIT_OPTION
            \/ \E k \in 1..Len(OfferedAt(i)) : events[i].arg = OfferedAt(i)[k]
    /\ \A i \in EventsOf("confirm") :
         /\ events[i].helper = "missing" <=> events[i].fallback
         /\ events[i].helper = "nonzero" => ~events[i].ok
    /\ (pc \in {"choose_input"}) => chHelper \in {"missing", "nonzero"}
    /\ (pc = "exit" /\ fault = "none") => exitCode = 0

\* C9 witness: both fallbacks were used in one run, which ended with code 0
C9_Witness ==
    /\ pc = "exit" /\ exitCode = 0
    /\ \E i \in EventsOf("choose") : events[i].helper = "nonzero" /\ events[i].fallback
    /\ \E i \in EventsOf("confirm") : events[i].helper = "missing" /\ events[i].fallback

\* C10 as stated: a returned command wrapped in a fenced block is extracted
\* as the one-element list of that command.
C10_Original == pc = "roundtrip" => rtResult = <<rtCmd>>

\* C10 amended: a returned command wrapped in a fenced block is extracted as
\* that command followed by the qualifying inline spans it holds; the result
\* is the one-element list when the command holds no backtick.
C10_RoundTrip ==
    pc = "roundtrip" =>
        /\ rtResult = <<rtCmd>> \o InlineCommands(FindInline(rtCmd, 1))
        /\ (\A i \in 1..Len(rtCmd) : rtCmd[i] # BT) => rtResult = <<rtCmd>>

\* C10 witness: a command without backticks came back alone
C10_Witness ==
    /\ pc = "roundtrip"
    /\ rtCmd # <<>>
    /\ \A i \in 1..Len(rtCmd) : rtCmd[i] # BT
    /\ rtResult = <<rtCmd>>

\* C11: with the helper missing, confirm reads one line, once, and answers
\* true for "y" and false for "n" and for the empty line.
C11_FallbackAnswers ==
    (pc = "confirmed" /\ events[1].helper = "missing") =>
        /\ events[1].fallback
        /\ Len(events) = 1
        /\ Cardinality({i \in 1..Len(log) : log[i] = "confirm_prompt"}) = 1
        /\ typed = <<"y">> => events[1].ok
        /\ typed \in {<<"n">>, <<>>} => ~events[1].ok

\* C11 witness: the helper was missing and the empty line was answered
C11_Witness ==
    /\ pc = "confirmed"
    /\ events[1].helper = "missing"
    /\ typed = <<>>
    /\ ~events[1].ok

\* the triple-backtick markers of a text, left to right, not overlapping
RECURSIVE Markers(_, _)
Markers(text, i) ==
    IF i + 2 > Len(text) THEN <<>>
    ELSE IF MatchAt(text, i, FENCE) THEN <<i>> \o Markers(text, i + 3)
    ELSE Markers(text, i + 1)

\* the bodies of the fenced code regions of a text: the markers delimit
\* regions in pairs (first with second, third with fourth, ...), and a region
\* counts when its opening marker is followed by an optional bash/sh/shell
\* tag and a newline
RegionBodies(text) ==
    LET ms == Markers(text, 1)
        IsRegion(k) == OpenFenceLen(text, ms[2 * k - 1]) > 0
        regions == SelectSeq([k \in 1..(Len(ms) \div 2) |-> k], IsRegion)
    IN  [j \in 1..Len(regions) |->
            SubSeq(text, ms[2 * regions[j] - 1] + OpenFenceLen(text, ms[2 * regions[j] - 1]),
                   ms[2 * regions[j]] - 1)]

\* the commands of the fenced regions: per body, the trimmed lines that are
\* not empty and do not start with '#'
RegionCommands(text) ==
    LET bodies == RegionBodies(text)
    IN  Flatten([j \in 1..Len(bodies) |-> BlockCommands(bodies[j])])

\* the qualifying inline spans of the extracted text, as extract returns them
InlinePart == InlineCommands(FindInline(response, 1))

\* the fenced-block part of the result: what precedes the inline commands
FencedPart == SubSeq(commands, 1, Len(commands) - Len(InlinePart))

\* C12 as stated: the fenced-block part of the result is the sequence of the
\* kept lines of the fenced code regions of the text, in document order, and
\* holds no line from outside a region body.
C12_FencedRegions == pc = "extracted" => FencedPart = RegionCommands(response)

\* the Dangerous prompts that have returned, and the risk queries made
GateChoices == {i \in EventsOf("choose") : events[i].site = "gate"}
ExplainQueries == {i \in EventsOf("query") : events[i].site = "explain"}

\* C13: for a safe, sudo or unknown command the gate asks one confirm, no
\* chooseOne and no backend query, and runs the command exactly when that
\* confirm returned true; for a dangerous command answered "proceed anyway"
\* it asks one confirm after the choice and makes no backend query.
C13_SingleConfirm ==
    /\ classification \in {"safe", "sudo", "unknown"} =>
         /\ Cardinality(EventsOf("confirm")) <= 1
         /\ GateChoices = {} /\ ExplainQueries = {}
         /\ \A i \in EventsOf("confirm") : events[i].site = classification
         /\ GateReturned =>
              /\ Cardinality(EventsOf("confirm")) = 1
              /\ Runs = 1 <=> \A i \in EventsOf("confirm") : events[i].ok
    /\ \A c \in GateChoices : events[c].arg = OPT_PROCEED =>
         /\ ExplainQueries = {}
         /\ Cardinality(EventsOf("confirm")) <= 1
         /\ \A i \in EventsOf("confirm") : i > c /\ events[i].site = "proceed"
         /\ GateReturned => Cardinality(EventsOf("confirm")) = 1

\* C13 witness: an unknown command ran after its one confirm
C13_Witness ==
    /\ classification = "unknown"
    /\ GateReturned
    /\ Runs = 1

StartsWithSudoVerb(cmd) == AnyStartsWith(Strip(Lower(cmd)), SUDO_COMMANDS)
StartsWithSafeVerb(cmd) == AnyStartsWith(Strip(Lower(cmd)), SAFE_COMMANDS)

\* C14: classify_command returns one of the four tiers; for a command with
\* no dangerous pattern and no leading filesystem verb it returns sudo if the
\* trimmed lower-cased command starts with a sudo verb, otherwise safe if it
\* starts with a safe verb, otherwise unknown.
C14_DecisionList ==
    pc = "classified" =>
        /\ classification \in {"safe", "sudo", "dangerous", "unknown"}
        /\ (~HoldsDangerousPattern(command) /\ ~StartsWithFsVerb(command)) =>
             classification = (IF StartsWithSudoVerb(command) THEN "sudo"
                               ELSE IF StartsWithSafeVerb(command) THEN "safe"
                               ELSE "unknown")

\* C14 witness: a sudo verb behind leading whitespace, in upper or lower case
C14_Witness ==
    /\ pc = "classified"
    /\ command # <<>> /\ command[1] = " "
    /\ ~HoldsDangerousPattern(command) /\ ~StartsWithFsVerb(command)
    /\ StartsWithSudoVerb(command)
    /\ classification = "sudo"

\* the code blocks the pattern of extract_commands finds in the extracted text
FoundBlocks == FindCodeBlocks(response, 1)

\* the lines of a block that count as commands: not blank, not a comment
QualifyingLines(block) ==
    LET lines == Split(block, "\n")
    IN  {i \in 1..Len(lines) :
            Strip(lines[i]) # <<>> /\ Head(Strip(lines[i])) # "#"}

RECURSIVE SumOver(_, _)
SumOver(f, n) == IF n = 0 THEN 0 ELSE f[n] + SumOver(f, n - 1)

\* the number of qualifying lines in all found blocks
QualifyingLineCount ==
    SumOver([k \in 1..Len(FoundBlocks) |-> Cardinality(QualifyingLines(FoundBlocks[k]))],
            Len(FoundBlocks))

\* the inline spans of the extracted text and those that qualify
FoundSpans == FindInline(response, 1)
QualifyingSpans ==
    {i \in 1..Len(FoundSpans) :
        /\ Contains(Strip(FoundSpans[i]), <<" ">>)
        /\ AnyStartsWith(Strip(FoundSpans[i]), INLINE_PREFIXES)}

\* C15: the result is the commands of the found blocks, in document order,
\* followed by the qualifying inline commands, in document order, one entry
\* per occurrence: its length is the number of qualifying block lines plus
\* the number of qualifying inline spans.
C15_FencedThenInline ==
    pc = "extracted" =>
        /\ commands = Flatten([k \in 1..Len(FoundBlocks) |-> BlockCommands(FoundBlocks[k])])
                      \o InlinePart
        /\ Len(commands) = QualifyingLineCount + Cardinality(QualifyingSpans)

\* C15 witness: an inline command stands before a fenced block in the text
\* and after its command in the result
C15_Witness ==
    /\ pc = "extracted"
    /\ Len(response) >= 3 /\ response[2] = BT /\ response[3] # BT
    /\ Len(FencedPart) >= 1 /\ Len(InlinePart) >= 1
    /\ Len(commands) = 2 /\ commands[2] = InlinePart[1]

\* the inline part of the result: what follows the commands of the blocks
InlineTail == SubSeq(commands, QualifyingLineCount + 1, Len(commands))

\* a span as found contains a space and starts with an allow-listed prefix
QualifiesAsFound(span) ==
    Contains(span, <<" ">>) /\ AnyStartsWith(span, INLINE_PREFIXES)

\* a span qualifies once its surrounding whitespace is trimmed
QualifiesTrimmed(span) == QualifiesAsFound(Strip(span))

StripAll(spans) == [i \in 1..Len(spans) |-> Strip(spans[i])]

\* C16 as stated: an inline span is returned exactly when it contains a
\* space and starts with an allow-listed prefix.
C16_Original ==
    pc = "extracted" =>
        InlineTail = StripAll(SelectSeq(FoundSpans, QualifiesAsFound))

\* C16 amended: an inline span is returned, trimmed, exactly when after
\* trimming its surrounding whitespace it contains a space and starts with
\* an allow-listed prefix.
C16_InlineFilter ==
    pc = "extracted" =>
        InlineTail = StripAll(SelectSeq(FoundSpans, QualifiesTrimmed))

\* C16 witness: a span with a prefix and no space was dropped and a span
\* with a prefix and a space was kept
C16_Witness ==
    /\ pc = "extracted"
    /\ \E i \in 1..Len(FoundSpans) : FoundSpans[i] = <<"l", "s">>
    /\ \E i \in 1..Len(FoundSpans) : QualifiesTrimmed(FoundSpans[i])
    /\ Len(InlineTail) = 1

\* the number a typed menu line stands for, for the lines that are numbers
MenuNumbers ==
    {<< <<"0">>, 0 >>, << <<"1">>, 1 >>, << <<"2">>, 2 >>, << <<" ", "3", " ">>, 3 >>,
     << <<"7">>, 7 >>, << <<"-", "1">>, 0 - 1 >>}

\* the line is the number k
Typed(line, k) == <<line, k>> \in MenuNumbers

InChooser == pc \in {"gum_choose", "choose_input"}

\* gum_choose returns the value v to its caller in this step
ChooseReturns(v) ==
    /\ pc' \in {"process_chosen", "gate_chosen"}
    /\ choice' = v
    /\ Len(events') = Len(events) + 1
    /\ events'[Len(events')].op = "choose" /\ events'[Len(events')].arg = v

\* gum_choose returns nothing in this step and asks again
ChooseAsksAgain ==
    /\ pc' = "choose_input"
    /\ choice' = choice /\ events' = events
    /\ chRetries' = chRetries + 1

\* C17: every step of gum_choose either returns an offered option or the
\* sentinel, or stays in the menu; an empty selection of the helper is the
\* sentinel; in the menu 0 returns the sentinel, k in 1..n returns the k-th
\* option, and any other line returns nothing and is asked again.
C17_ChooseOffered ==
    [][ InChooser =>
          /\ gum_choose_selected(<<>>) = EXIT_OPTION
          /\ \/ pc' = "choose_input"
             \/ ChooseReturns(EXIT_OPTION)
             \/ \E k \in 1..Len(chOptions) : ChooseReturns(chOptions[k])
          /\ pc = "choose_input" =>
               /\ Typed(typed', 0) => ChooseReturns(EXIT_OPTION)
               /\ \A k \in 1..Len(chOptions) :
                    Typed(typed', k) => ChooseReturns(chOptions[k])
               /\ (~\E k \in 0..Len(chOptions) : Typed(typed', k)) => ChooseAsksAgain
      ]_vars

\* C17 witness: after an invalid answer the menu returned the second option
C17_Witness ==
    /\ pc \in {"process_chosen", "gate_chosen"}
    /\ chRetries >= 1
    /\ typed = <<"2">>
    /\ Len(chOptions) >= 2 /\ choice = chOptions[2]
    /\ events[Len(events)].op = "choose" /\ events[Len(events)].fallback

\* a command that can be handed to the shell: not empty, no whitespace at
\* its ends (so not whitespace-only), no newline
WellFormedCommand(c) ==
    /\ c # <<>>
    /\ c[1] \notin Whitespace /\ c[Len(c)] \notin Whitespace
    /\ \A i \in 1..Len(c) : c[i] # "\n"

\* C18: every command extract returns is non-empty, has no leading or
\* trailing whitespace and holds no newline.
C18_CommandsWellFormed ==
    pc = "extracted" => \A i \in 1..Len(commands) : WellFormedCommand(commands[i])

\* C18 witness: a command was taken from a block that begins with a blank line
C18_Witness ==
    /\ pc = "extracted"
    /\ commands # <<>>
    /\ \E k \in 1..Len(FoundBlocks) :
         /\ BlockCommands(FoundBlocks[k]) # <<>>
         /\ Head(FoundBlocks[k]) = "\n"

\* the risk queries of the gate that failed
FailedExplainQueries == {i \in ExplainQueries : ~events[i].ok}

\* C19: when the risk query of "Explain risks first" fails, nothing follows
\* it: no confirm is asked, the runner is not invoked, the gate is left by
\* the exception and the process ends with exit code 1.
C19_ExplainFailureAborts ==
    \A i \in FailedExplainQueries :
        /\ i = Len(events)
        /\ Runs = 0
        /\ \A j \in EventsOf("confirm") : j < i
        /\ gateResult = "raised"
        /\ pc = "exit" /\ exitCode = 1

\* C19 witness: the risk query failed
C19_Witness ==
    /\ FailedExplainQueries # {}
    /\ fault = "explain_query_error"
    /\ pc = "exit"

====
